---- MODULE Spec2Model ----
(***************************************************************************)
(* Adaptive hierarchical fitting: gsHFitting<d,T> (gsHSplines/gsHFitting.h) *)
(*                                                                         *)
(* Reals are fixed-point integers: parameter coordinates are in tenths of  *)
(* the unit domain, errors/thresholds/tolerances in hundredths.            *)
(***************************************************************************)
EXTENDS Integers, Sequences, FiniteSets, TLC

VARIABLES m_param_values, m_ref, m_ext, basis,
          m_pointErrors, m_max_error, m_min_error,
          pc, frame, obs, stale

vars == <<m_param_values, m_ref, m_ext, basis,
          m_pointErrors, m_max_error, m_min_error,
          pc, frame, obs, stale>>

-----------------------------------------------------------------------------
(* Bounds of the model *)

\* largest number of sample points of a driver
MaxPts == 2
\* largest number of sample points of a standalone threshold selection
MaxSelPts == 4
\* largest number of sample points of a standalone getBoxes scan
MaxScanPts == 3
\* deepest level the driver's basis may grow to
MaxLevel == 1
\* deepest level of the structures a standalone getBoxes scan runs on
MaxScanLevel == 2
\* largest iteration budget handed to iterativeRefine
MaxIter == 2

-----------------------------------------------------------------------------
(* Types and value domains *)

\* template parameter d
Dim == 2

\* `unsigned` arithmetic wraps modulo this (width scaled down to 16 bits;
\* every grid of the model stays far below half of it)
UIntModulus == 65536

\* the parameter domain is [0,1]^d, coordinates in tenths
DomainEnd == 10

\* m_ref is RefNum / RefDen (dyadic, so 1.0 - m_ref and the product with the
\* field size are exact in floating point)
RefDen == 4

Dims == 1..Dim

Max(S) == CHOOSE x \in S : \A y \in S : y <= x
Min(S) == CHOOSE x \in S : \A y \in S : x <= y
Range(s) == {s[k] : k \in 1..Len(s)}

Coords == {1, 9}
PointVals == [Dims -> Coords]
ErrVals == {5, 50, 90}
\* the error values a fit of the driver produces
FitErrVals == {Min(ErrVals), Max(ErrVals)}
\* a tolerance that no error can exceed (+infinity)
TolInf == Max(ErrVals) + 1
TolVals == {50, TolInf}
ThrVals == {-1, 0, 95}
\* what a read past the end of the error vector may yield
GarbageVals == {0, 95}

\* the sample points of the driver: the four corner points in a fixed order,
\* repeated cyclically
CornerPoint(k) ==
    LET j == (k - 1) % 4
    IN  <<IF j % 2 = 0 THEN 1 ELSE 9, IF j \div 2 = 0 THEN 1 ELSE 9>>

CornerCloud(n) == [k \in 1..n |-> CornerPoint(k)]

SeqsOfLen(S, n) == [1..n -> S]

-----------------------------------------------------------------------------
(* The hierarchical basis (gsHTensorBasis / gsHDomain), an external        *)
(* collaborator: level-0 cell counts nC0, the deepest level maxLvl, and    *)
(* the level of every finest-level cell.                                   *)

NumCells(b, lvl, dim) == b.nC0[dim] * (2 ^ lvl)

FinestCells(nC0, lvl) == [Dims -> 0..(Max({nC0[i] : i \in Dims}) * (2 ^ lvl) - 1)]

CellsOf(nC0, lvl) ==
    {c \in FinestCells(nC0, lvl) : \A dim \in Dims : c[dim] < nC0[dim] * (2 ^ lvl)}

SingleLevelBasis(nC0) ==
    [nC0 |-> nC0, maxLvl |-> 0, lvl |-> [c \in CellsOf(nC0, 0) |-> 0]]

\* basis->maxLevel()
maxLevel(b) == b.maxLvl

\* basis->numBreaks(lvl, dim): levels are related by dyadic refinement
numBreaks(b, lvl, dim) == NumCells(b, lvl, dim) + 1

\* kv.uFind(u).uIndex(): index of the break interval of the finest level that
\* contains u; the right end of the domain belongs to the last interval
uIndex(b, dim, u) ==
    LET n == NumCells(b, b.maxLvl, dim)
        k == (u * n) \div DomainEnd
    IN  IF k >= n THEN n - 1 ELSE k

\* basis->tree().query3(lower, upper, maxLvl) for one finest-level cell
query3(b, a_cell) == b.lvl[a_cell]

\* decode the flat box list { level lower-corners upper-corners ... }
BoxCount(boxes) == Len(boxes) \div (2 * Dim + 1)
BoxAt(boxes, k) ==
    LET off == (k - 1) * (2 * Dim + 1)
    IN  [level |-> boxes[off + 1],
         low   |-> [dim \in Dims |-> boxes[off + 1 + dim]],
         upp   |-> [dim \in Dims |-> boxes[off + 1 + Dim + dim]]]

CellCount(cells) == Len(cells) \div Dim
CellAt(cells, k) == [dim \in Dims |-> cells[(k - 1) * Dim + dim]]

\* basis->refineElements(boxes): every finest cell inside a box is raised to
\* the box level; a box one level below the finest grid deepens the structure
refineElements(b, boxes) ==
    LET lvls == {BoxAt(boxes, k).level : k \in 1..BoxCount(boxes)}
        newMax == Max(lvls \cup {b.maxLvl})
        up == newMax - b.maxLvl
        old(c) == b.lvl[[dim \in Dims |-> c[dim] \div (2 ^ up)]]
        covering(c) ==
            {BoxAt(boxes, k).level : k \in
                {j \in 1..BoxCount(boxes) :
                    LET bx == BoxAt(boxes, j)
                    IN  \A dim \in Dims :
                          LET idx == c[dim] \div (2 ^ (newMax - bx.level))
                          IN  bx.low[dim] <= idx /\ idx < bx.upp[dim]}}
    IN  [nC0 |-> b.nC0, maxLvl |-> newMax,
         lvl |-> [c \in CellsOf(b.nC0, newMax) |-> Max(covering(c) \cup {old(c)})]]

-----------------------------------------------------------------------------
(* gsHFitting: box building *)

ShiftRight(x, s) == x \div (2 ^ s)
ShiftLeft(x, s) == (x * (2 ^ s)) % UIntModulus

\* append(boxes, box)
append(boxes, box) == boxes \o box

\* a variant that treats a cell as present as soon as one index agrees
isCellAlreadyInserted_anyEntry(a_cell, cells) ==
    \E blk \in 0..(CellCount(cells) - 1) :
        Cardinality({col \in Dims : cells[blk * Dim + col] = a_cell[col]}) >= 1

isCellAlreadyInserted(a_cell, cells) ==
    \E blk \in 0..(CellCount(cells) - 1) :
        LET commonEntries ==
                Cardinality({col \in Dims : cells[blk * Dim + col] = a_cell[col]})
        IN  commonEntries = Dim

\* level of a cell: one finer than where the structure has it
cellLevel_noIncrement(b, a_cell) == query3(b, a_cell)

cellLevel(b, a_cell) == query3(b, a_cell) + 1

\* a variant that forgets to clamp the upper index
upperIndex_unclamped(lowIndex, ext, numBreaksM1) ==
    (lowIndex + ext + 1) % UIntModulus

upperIndex(lowIndex, ext, numBreaksM1) ==
    IF (lowIndex + ext + 1) % UIntModulus < numBreaksM1
    THEN (lowIndex + ext + 1) % UIntModulus
    ELSE numBreaksM1

lowerIndex(lowIndex, ext) ==
    IF lowIndex > ext THEN lowIndex - ext ELSE 0

levelIndex(a_cell_dim, cell_lvl, maxLvl) ==
    IF cell_lvl < maxLvl
    THEN ShiftRight(a_cell_dim, maxLvl - cell_lvl)
    ELSE ShiftLeft(a_cell_dim, cell_lvl - maxLvl)

appendBox(boxes, cells, parameter, b, ext) ==
    LET maxLvl == maxLevel(b)
        a_cell == [dim \in Dims |-> uIndex(b, dim, parameter[dim])]
    IN  IF ~isCellAlreadyInserted(a_cell, cells)
        THEN LET cell_lvl == cellLevel(b, a_cell)
                 nb(dim) == numBreaks(b, cell_lvl, dim) - 1
                 lowIndex(dim) == levelIndex(a_cell[dim], cell_lvl, maxLvl)
                 low == [dim \in Dims |-> lowerIndex(lowIndex(dim), ext[dim])]
                 upp == [dim \in Dims |-> upperIndex(lowIndex(dim), ext[dim], nb(dim))]
                 box == <<cell_lvl>> \o low \o upp
             IN  [boxes |-> append(boxes, box), cells |-> append(cells, a_cell)]
        ELSE [boxes |-> boxes, cells |-> cells]

\* a variant that flags every point
flagged_all(threshold, err) == TRUE

flagged_strict(threshold, err) == threshold < err

flagged(threshold, err) == threshold <= err

RECURSIVE getBoxesFrom(_, _, _, _, _, _, _)
getBoxesFrom(index, acc, errors, threshold, params, b, ext) ==
    IF index > Len(errors) THEN acc
    ELSE getBoxesFrom(index + 1,
                      IF flagged(threshold, errors[index])
                      THEN appendBox(acc.boxes, acc.cells, params[index], b, ext)
                      ELSE acc,
                      errors, threshold, params, b, ext)

\* returns the boxes together with the scan's cell container
getBoxes(errors, threshold, params, b, ext) ==
    getBoxesFrom(1, [boxes |-> <<>>, cells |-> <<>>], errors, threshold, params, b, ext)

-----------------------------------------------------------------------------
(* gsHFitting: threshold selection *)

RECURSIVE Insert(_, _)
Insert(x, s) ==
    IF s = <<>> THEN <<x>>
    ELSE IF x <= Head(s) THEN <<x>> \o s
    ELSE <<Head(s)>> \o Insert(x, Tail(s))

RECURSIVE SortAsc(_)
SortAsc(s) == IF s = <<>> THEN <<>> ELSE Insert(Head(s), SortAsc(Tail(s)))

\* std::nth_element followed by *pos, for pos inside the vector
nth_element(errorsCopy, i) == SortAsc(errorsCopy)[i + 1]

\* cast<T,size_t>(errorsCopy.size() * (1.0 - m_ref))
thresholdRank(size, ref) == (size * (RefDen - ref)) \div RefDen

\* `pastTheEnd` is what a read of *errorsCopy.end() yields
setRefineThreshold(errors, ref, pastTheEnd) ==
    LET errorsCopy == errors
        i == thresholdRank(Len(errorsCopy), ref)
    IN  IF i < Len(errorsCopy)
        THEN nth_element(errorsCopy, i)
        ELSE pastTheEnd

-----------------------------------------------------------------------------
(* The fitting context (gsFitting), an external collaborator *)

\* compute(lambda): recompute the approximation on the current basis
compute(o) == [o EXCEPT !.ev = @ \o <<"compute">>]

\* computeErrors(): the error field is replaced wholesale, one entry per
\* sample, and the statistics are recomputed from it; the field it measures
\* is the environment's choice (see Apply)
computeErrors(o) == [o EXCEPT !.ev = @ \o <<"computeErrors">>]

Measured(o) == "computeErrors" \in Range(o.ev)

\* the error fields computeErrors can produce
Fields(o) ==
    IF Measured(o) THEN SeqsOfLen(FitErrVals, Len(m_param_values))
    ELSE {m_pointErrors}

-----------------------------------------------------------------------------
(* gsHFitting: one refinement step *)

\* the state a call of nextIteration starts from
entry ==
    [ret |-> FALSE, basis |-> basis, ev |-> <<>>, boxes |-> <<>>,
     cause |-> "none", log |-> <<>>]

toleranceExceeded_always(max_error, tolerance) == TRUE

toleranceExceeded(max_error, tolerance) == max_error > tolerance

selectThreshold(err_threshold, errors, ref, pastTheEnd) ==
    IF err_threshold >= 0 THEN err_threshold
    ELSE setRefineThreshold(errors, ref, pastTheEnd)

noBoxes_returnsTrue(o) == [o EXCEPT !.ret = TRUE, !.cause = "noboxes"]

\* if(boxes.size()==0) return false;
noBoxes(o) == [o EXCEPT !.ret = FALSE, !.cause = "noboxes"]

\* basis->refineElements(boxes); gsDebug << "inserted ..."
refine(o) ==
    [o EXCEPT !.basis = refineElements(o.basis, o.boxes),
              !.ev = @ \o <<"refineElements">>,
              !.log = @ \o <<"inserted boxes">>]

\* gsDebug << "Tolerance reached.\n"; return false;
toleranceReached(o) ==
    [o EXCEPT !.ret = FALSE, !.cause = "tolerance",
              !.log = @ \o <<"Tolerance reached.">>]

\* a variant that returns right after the structural refinement
fitAndMeasure_skipped(o) == [o EXCEPT !.ret = TRUE]

\* this->compute(m_lambda); this->computeErrors(); return true;
fitAndMeasure(o) == [computeErrors(compute(o)) EXCEPT !.ret = TRUE]

nextIteration(tolerance, err_threshold, pastTheEnd) ==
    IF Len(m_pointErrors) # 0
    THEN LET checked == [entry EXCEPT !.ev = <<"tolCheck">>]
         IN  IF toleranceExceeded(m_max_error, tolerance)
             THEN LET threshold == selectThreshold(err_threshold, m_pointErrors,
                                                   m_ref, pastTheEnd)
                      gb == getBoxes(m_pointErrors, threshold, m_param_values,
                                     basis, m_ext)
                      built == [checked EXCEPT !.boxes = gb.boxes,
                                               !.ev = @ \o <<"threshold", "getBoxes">>]
                  IN  IF Len(gb.boxes) = 0
                      THEN noBoxes(built)
                      ELSE fitAndMeasure(refine(built))
             ELSE toleranceReached(checked)
    ELSE fitAndMeasure(entry)

\* what is observed of a finished nextIteration call: the value returned, the
\* calls made to the collaborators, the boxes handed over, the debug output
Observed(o, tolerance, err_threshold) ==
    [ni |-> TRUE, ret |-> o.ret, ev |-> o.ev, threshold |-> -1,
     boxes |-> o.boxes, cells |-> <<>>, cause |-> o.cause, log |-> o.log,
     scan |-> <<>>, hadField |-> (Len(m_pointErrors) # 0),
     tolerance |-> tolerance, err_threshold |-> err_threshold]

NoObs ==
    [ni |-> FALSE, ret |-> FALSE, ev |-> <<>>, threshold |-> -1,
     boxes |-> <<>>, cells |-> <<>>, cause |-> "none", log |-> <<>>,
     scan |-> <<>>, hadField |-> FALSE, tolerance |-> 0, err_threshold |-> -1]

NoFrame ==
    [op |-> "none", numIterations |-> 0, tolerance |-> 0, err_threshold |-> -1,
     i |-> 0, unfitted |-> FALSE, fits |-> 0, measures |-> 0, refines |-> 0,
     log |-> <<>>]

Count(s, e) == Cardinality({k \in 1..Len(s) : s[k] = e})

\* the effect of the calls in o on the driver and its collaborators, newErr
\* being the field that computeErrors measures
Apply(o, newErr) ==
    /\ o.basis.maxLvl <= MaxLevel
    /\ basis' = o.basis
    /\ m_pointErrors' = IF Measured(o) THEN newErr ELSE m_pointErrors
    /\ m_max_error' = IF Measured(o) THEN Max(Range(newErr)) ELSE m_max_error
    /\ m_min_error' = IF Measured(o) THEN Min(Range(newErr)) ELSE m_min_error
    /\ stale' = IF o.ev # <<>> /\ o.ev[Len(o.ev)] = "computeErrors" THEN FALSE
                ELSE IF "refineElements" \in Range(o.ev) THEN TRUE
                ELSE stale

\* the values a read past the end of the error vector can yield, where the
\* call makes one
PastTheEnd(err_threshold) ==
    IF /\ err_threshold < 0
       /\ Len(m_pointErrors) # 0
       /\ thresholdRank(Len(m_pointErrors), m_ref) >= Len(m_pointErrors)
    THEN GarbageVals
    ELSE {0}

\* bool nextIteration(T tolerance, T err_threshold), called by the user
NextIterationCall ==
    /\ pc = "idle"
    /\ \E tolerance \in TolVals, err_threshold \in ThrVals :
       \E pastTheEnd \in PastTheEnd(err_threshold) :
       \E o \in {nextIteration(tolerance, err_threshold, pastTheEnd)} :
              /\ \E newErr \in Fields(o) : Apply(o, newErr)
              /\ obs' = Observed(o, tolerance, err_threshold)
              /\ frame' = [NoFrame EXCEPT !.op = "nextIteration",
                                          !.tolerance = tolerance,
                                          !.err_threshold = err_threshold,
                                          !.unfitted = (Len(m_pointErrors) = 0),
                                          !.fits = Count(o.ev, "compute"),
                                          !.measures = Count(o.ev, "computeErrors"),
                                          !.refines = Count(o.ev, "refineElements")]
    /\ UNCHANGED <<m_param_values, m_ref, m_ext, pc>>

-----------------------------------------------------------------------------
(* gsHFitting: the refinement loop *)

\* if ( m_pointErrors.size() == 0 ) { compute; computeErrors; }
entryFit(o) ==
    IF Len(m_pointErrors) = 0 THEN computeErrors(compute(o)) ELSE o

\* void iterativeRefine(int numIterations, T tolerance, T err_threshold):
\* the entry fit, up to the head of the loop
IterativeRefineCall ==
    /\ pc = "idle"
    /\ \E numIterations \in 0..MaxIter, tolerance \in TolVals,
          err_threshold \in ThrVals :
       \E o \in {entryFit(entry)} :
              /\ \E newErr \in Fields(o) : Apply(o, newErr)
              /\ frame' = [op |-> "iterativeRefine",
                           numIterations |-> numIterations,
                           tolerance |-> tolerance,
                           err_threshold |-> err_threshold,
                           i |-> 0, unfitted |-> (Len(m_pointErrors) = 0),
                           fits |-> Count(o.ev, "compute"),
                           measures |-> Count(o.ev, "computeErrors"),
                           refines |-> 0, log |-> <<>>]
    /\ obs' = NoObs
    /\ pc' = "loop"
    /\ UNCHANGED <<m_param_values, m_ref, m_ext>>

loopExit_boxesFirst(newIteration, max_error, tolerance) ==
    IF ~newIteration THEN "No more Boxes to insert at iteration"
    ELSE IF max_error <= tolerance THEN "Tolerance reached at iteration"
    ELSE "continue"

\* the two break tests after the call of nextIteration
loopExit(newIteration, max_error, tolerance) ==
    IF max_error <= tolerance THEN "Tolerance reached at iteration"
    ELSE IF ~newIteration THEN "No more Boxes to insert at iteration"
    ELSE "continue"

\* one pass of the loop body
IterativeRefineStep ==
    /\ pc = "loop"
    /\ frame.i < frame.numIterations
    /\ \E pastTheEnd \in PastTheEnd(frame.err_threshold) :
       \E o \in {nextIteration(frame.tolerance, frame.err_threshold, pastTheEnd)} :
          LET newIteration == o.ret
          IN  /\ \E newErr \in Fields(o) : Apply(o, newErr)
              /\ obs' = Observed(o, frame.tolerance, frame.err_threshold)
              /\ LET exit == loopExit(newIteration, m_max_error', frame.tolerance)
                 IN  /\ frame' = [frame EXCEPT
                               !.fits = @ + Count(o.ev, "compute"),
                               !.measures = @ + Count(o.ev, "computeErrors"),
                               !.refines = @ + Count(o.ev, "refineElements"),
                               !.log = @ \o (IF exit = "continue" THEN <<>>
                                             ELSE <<exit>>),
                               !.i = IF exit = "continue" THEN @ + 1 ELSE @]
                     /\ pc' = IF exit = "continue" THEN "loop" ELSE "idle"
    /\ UNCHANGED <<m_param_values, m_ref, m_ext>>

\* the loop condition fails: the budget is used up
IterativeRefineReturn ==
    /\ pc = "loop"
    /\ frame.i >= frame.numIterations
    /\ pc' = "idle"
    /\ UNCHANGED <<m_param_values, m_ref, m_ext, basis, m_pointErrors,
                   m_max_error, m_min_error, frame, obs, stale>>

-----------------------------------------------------------------------------
(* The driver after construction *)

Init ==
    /\ \E n \in 1..MaxPts : m_param_values = CornerCloud(n)
    /\ m_ref \in {0, 2}
    /\ m_ext = <<0, 0>>
    /\ basis = SingleLevelBasis(<<1, 1>>)
    /\ m_pointErrors = <<>>
    /\ m_max_error = 0
    /\ m_min_error = 0
    /\ pc = "idle"
    /\ frame = NoFrame
    /\ obs = NoObs
    /\ stale = FALSE

Next ==
    \/ NextIterationCall
    \/ IterativeRefineCall
    \/ IterativeRefineStep
    \/ IterativeRefineReturn

Spec == Init /\ [][Next]_vars

-----------------------------------------------------------------------------
(* Threshold selection and box building on a fitted driver, called on      *)
(* their own                                                               *)

Fitted(errors) ==
    /\ m_pointErrors = errors
    /\ m_max_error = Max(Range(errors))
    /\ m_min_error = Min(Range(errors))

InitSel ==
    /\ \E n \in 1..MaxSelPts :
          /\ m_param_values = CornerCloud(n)
          /\ \E errors \in SeqsOfLen(ErrVals, n) : Fitted(errors)
    /\ m_ref \in 0..RefDen
    /\ m_ext = <<0, 0>>
    /\ \E nC0 \in {<<1, 1>>, <<2, 2>>} : basis = SingleLevelBasis(nC0)
    /\ pc = "idle"
    /\ frame = NoFrame
    /\ obs = NoObs
    /\ stale = FALSE

\* T setRefineThreshold(errors) on the current error field
SetRefineThresholdCall ==
    /\ \E pastTheEnd \in PastTheEnd(-1) :
          obs' = [NoObs EXCEPT
                    !.threshold = setRefineThreshold(m_pointErrors, m_ref, pastTheEnd)]
    /\ frame' = [NoFrame EXCEPT !.op = "setRefineThreshold"]
    /\ UNCHANGED <<m_param_values, m_ref, m_ext, basis, m_pointErrors,
                   m_max_error, m_min_error, pc, stale>>

\* getBoxes(m_pointErrors, threshold), the threshold derived from the
\* refinement percentage
GetBoxesDerived ==
    /\ frame.op = "setRefineThreshold"
    /\ LET gb == getBoxes(m_pointErrors, obs.threshold, m_param_values, basis, m_ext)
       IN  obs' = [obs EXCEPT !.boxes = gb.boxes, !.cells = gb.cells,
                              !.scan = m_pointErrors]
    /\ frame' = [NoFrame EXCEPT !.op = "getBoxes"]
    /\ UNCHANGED <<m_param_values, m_ref, m_ext, basis, m_pointErrors,
                   m_max_error, m_min_error, pc, stale>>

NextSel == SetRefineThresholdCall \/ GetBoxesDerived

SpecSel == InitSel /\ [][NextSel]_vars

-----------------------------------------------------------------------------
(* Box building over arbitrary point sequences and refined structures *)

\* the box of level lvl that covers the whole domain, or only the cell at
\* the origin
OriginBox(nC0, lvl, all) ==
    <<lvl>> \o [dim \in Dims |-> 0]
            \o [dim \in Dims |-> IF all THEN nC0[dim] * (2 ^ lvl) ELSE 1]

\* the structure refineElements builds from b with one such box per level:
\* the whole domain up to level `uniform`, the origin cell from there to `depth`
RECURSIVE RefinedFrom(_, _, _, _)
RefinedFrom(b, lvl, uniform, depth) ==
    IF lvl > depth THEN b
    ELSE RefinedFrom(refineElements(b, OriginBox(b.nC0, lvl, lvl <= uniform)),
                     lvl + 1, uniform, depth)

ScanBases ==
    {RefinedFrom(SingleLevelBasis(<<2, 1>>), 1, uniform, depth)
       : uniform \in 0..MaxScanLevel, depth \in 0..MaxScanLevel}

\* the error fields of a scan: every point above the threshold but at most
\* one, or none above it
ScanFields(n) ==
    {[k \in 1..n |-> IF k = low THEN Min(ErrVals) ELSE Max(ErrVals)] : low \in 0..n}
        \cup {[k \in 1..n |-> Min(ErrVals)]}

InitBoxes ==
    /\ \E n \in 1..MaxScanPts : m_param_values \in SeqsOfLen(PointVals, n)
    /\ m_ref = 0
    /\ m_ext \in {<<0, 0>>, <<1, UIntModulus - 1>>}
    /\ basis \in ScanBases
    /\ m_pointErrors = <<>>
    /\ m_max_error = 0
    /\ m_min_error = 0
    /\ pc = "idle"
    /\ frame = NoFrame
    /\ obs = NoObs
    /\ stale = FALSE

\* std::vector<unsigned> getBoxes(errors, threshold), called by the user
GetBoxesCall ==
    /\ \E errors \in ScanFields(Len(m_param_values)), threshold \in {50} :
          LET gb == getBoxes(errors, threshold, m_param_values, basis, m_ext)
          IN  obs' = [NoObs EXCEPT !.threshold = threshold, !.boxes = gb.boxes,
                                   !.cells = gb.cells, !.scan = errors]
    /\ frame' = [NoFrame EXCEPT !.op = "getBoxes"]
    /\ UNCHANGED <<m_param_values, m_ref, m_ext, basis, m_pointErrors,
                   m_max_error, m_min_error, pc, stale>>

NextBoxes == GetBoxesCall

SpecBoxes == InitBoxes /\ [][NextBoxes]_vars

-----------------------------------------------------------------------------
(* Properties of box building (SpecBoxes) *)

ScanDone == frame.op = "getBoxes"

ScanBoxes == {BoxAt(obs.boxes, k) : k \in 1..BoxCount(obs.boxes)}

\* the finest-level cell of sample point k
CellOfPoint(k) == [dim \in Dims |-> uIndex(basis, dim, m_param_values[k][dim])]

FlaggedPoints == {k \in 1..Len(obs.scan) : obs.threshold <= obs.scan[k]}

FirstFlaggedIn(c) == Min({k \in FlaggedPoints : CellOfPoint(k) = c})

\* C5: every emitted box satisfies 0 <= low[i] <= upp[i] <= numBreaks(L, i) - 1
\* in every dimension, whatever the level L and the extension margin
C5_Clamping ==
    ScanDone =>
        \A bx \in ScanBoxes : \A dim \in Dims :
            /\ 0 <= bx.low[dim]
            /\ bx.low[dim] <= bx.upp[dim]
            /\ bx.upp[dim] <= numBreaks(basis, bx.level, dim) - 1

C5_Witness ==
    /\ ScanDone
    /\ m_ext # <<0, 0>>
    /\ \E bx \in ScanBoxes : bx.level < basis.maxLvl
    /\ \E bx \in ScanBoxes : bx.level > basis.maxLvl
    /\ \E bx \in ScanBoxes : \E dim \in Dims :
          bx.upp[dim] = numBreaks(basis, bx.level, dim) - 1

C9_LevelWithinFinest ==
    ScanDone =>
        \A k \in 1..BoxCount(obs.boxes) :
            /\ BoxAt(obs.boxes, k).level = query3(basis, CellAt(obs.cells, k)) + 1
            /\ BoxAt(obs.boxes, k).level <= basis.maxLvl

\* C9 amended: the level of every box is the queried level of its cell plus
\* one and never exceeds the finest level plus one; the finest-level index is
\* coarsened by maxLvl - L, kept, or doubled (a left shift of one) when
\* L = maxLvl + 1
C9_LevelOneFiner ==
    ScanDone =>
        \A k \in 1..BoxCount(obs.boxes) :
            LET bx == BoxAt(obs.boxes, k)
                c == CellAt(obs.cells, k)
            IN  /\ bx.level = query3(basis, c) + 1
                /\ bx.level <= basis.maxLvl + 1
                /\ \A dim \in Dims :
                      m_ext[dim] = 0 =>
                          bx.low[dim] = IF bx.level <= basis.maxLvl
                                        THEN c[dim] \div (2 ^ (basis.maxLvl - bx.level))
                                        ELSE 2 * c[dim]

C9_Witness ==
    /\ ScanDone
    /\ m_ext = <<0, 0>>
    /\ \E bx \in ScanBoxes : bx.level = basis.maxLvl + 1
    /\ \E bx \in ScanBoxes : bx.level < basis.maxLvl

-----------------------------------------------------------------------------
(* Properties of threshold selection (SpecSel) *)

\* v stands at 0-based rank r of the field sorted ascending
AtRank(v, r, errors) ==
    /\ v \in Range(errors)
    /\ Cardinality({k \in 1..Len(errors) : errors[k] < v}) <= r
    /\ r < Cardinality({k \in 1..Len(errors) : errors[k] <= v})

\* C4: setRefineThreshold returns the entry at rank floor(N * (1 - p)) of the
\* field sorted ascending; p = 0 returns the maximum, p = 1 the minimum
C4_RankSelection ==
    frame.op = "setRefineThreshold" =>
        LET n == Len(m_pointErrors)
            r == (n * (RefDen - m_ref)) \div RefDen
        IN  /\ r < n => AtRank(obs.threshold, r, m_pointErrors)
            /\ m_ref = 0 => obs.threshold = Max(Range(m_pointErrors))
            /\ m_ref = RefDen => obs.threshold = Min(Range(m_pointErrors))

\* the 2D toy scenario
ToyErrors == <<50, 90, 5, 5>>

Toy(nC0) ==
    /\ m_param_values = <<<<1, 1>>, <<9, 1>>, <<1, 9>>, <<9, 9>>>>
    /\ m_pointErrors = ToyErrors
    /\ m_ref = RefDen \div 2
    /\ m_ext = <<0, 0>>
    /\ basis = SingleLevelBasis(nC0)
    /\ ScanDone

\* C7 as stated: with 2x2 break points the threshold is 0.5 and two boxes are
\* emitted, one for each of the first two points, none for the other two
C7_TwoBoxes ==
    Toy(<<1, 1>>) =>
        /\ obs.threshold = 50
        /\ BoxCount(obs.boxes) = 2
        /\ CellCount(obs.cells) = 2
        /\ obs.cells = CellOfPoint(1) \o CellOfPoint(2)

\* C7 amended: the threshold is 0.5 and exactly the first two points are
\* flagged; with 2x2 break points they share the only cell, so one box
\* (level 1, [0,1) x [0,1)) is emitted; two boxes are emitted when the level
\* has 2x2 cells
C7_OneBoxPerCell ==
    /\ Toy(<<1, 1>>) =>
          /\ obs.threshold = 50
          /\ FlaggedPoints = {1, 2}
          /\ obs.cells = <<0, 0>>
          /\ obs.boxes = <<1, 0, 0, 1, 1>>
    /\ Toy(<<2, 2>>) =>
          /\ obs.threshold = 50
          /\ FlaggedPoints = {1, 2}
          /\ obs.cells = <<0, 0, 1, 0>>
          /\ obs.boxes = <<1, 0, 0, 1, 1>> \o <<1, 2, 0, 3, 1>>

C7_Witness == Toy(<<1, 1>>) /\ BoxCount(obs.boxes) = 1

-----------------------------------------------------------------------------
(* Properties of the refinement driver (Spec) *)

IsCollaboratorCall(e) == e \in {"refineElements", "compute", "computeErrors"}

\* the calls a nextIteration call made to the basis and the fitting context
Calls(ev) == SelectSeq(ev, IsCollaboratorCall)

RefineThenFit == <<"refineElements", "compute", "computeErrors">>

\* an iterativeRefine call on an unfitted driver with tolerance +infinity
InfRun ==
    /\ frame.op = "iterativeRefine"
    /\ frame.unfitted
    /\ frame.tolerance = TolInf

\* C1: on an unfitted driver iterativeRefine with tolerance +infinity makes
\* exactly one fit and one measurement and no refineElements call, whatever
\* the budget and the point set, and it terminates: at the head of the loop
\* a step can be taken, and every step taken there ends the call
C1_OneFitThenStop ==
    /\ [](InfRun => /\ frame.fits = 1
                    /\ frame.measures = 1
                    /\ frame.refines = 0
                    /\ basis = SingleLevelBasis(<<1, 1>>))
    /\ []((InfRun /\ pc = "loop") =>
             ENABLED (IterativeRefineStep \/ IterativeRefineReturn))
    /\ [][(InfRun /\ pc = "loop") => (InfRun' /\ pc' = "idle")]_vars

C1_Witness ==
    /\ InfRun
    /\ pc = "idle"
    /\ frame.numIterations = MaxIter
    /\ frame.log = <<"Tolerance reached at iteration">>
    /\ obs.ni /\ obs.cause = "tolerance"

\* C2 as stated: a nextIteration call that returns true made one
\* refineElements call with a non-empty box list, then one fit and one
\* measurement; one that returns false made neither
C2_TrueMeansRefineAndRefit ==
    obs.ni =>
        /\ obs.ret => Calls(obs.ev) = RefineThenFit /\ obs.boxes # <<>>
        /\ ~obs.ret => Calls(obs.ev) = <<>>

\* C2 amended: a nextIteration call that returns true made one fit and then
\* one measurement, preceded by one refineElements call with a non-empty box
\* list exactly when an error field existed at the call; one that returns
\* false made neither a refinement nor a fit, and an error field existed
C2_TrueMeansRefit ==
    obs.ni =>
        /\ (obs.ret /\ obs.hadField) =>
              Calls(obs.ev) = RefineThenFit /\ obs.boxes # <<>>
        /\ (obs.ret /\ ~obs.hadField) =>
              Calls(obs.ev) = <<"compute", "computeErrors">> /\ obs.boxes = <<>>
        /\ ~obs.ret => Calls(obs.ev) = <<>> /\ obs.hadField

C2_Witness ==
    /\ obs.ni
    /\ obs.ret
    /\ ~obs.hadField
    /\ frame.op = "nextIteration"
    /\ basis = SingleLevelBasis(<<1, 1>>)

\* the step is a call of nextIteration (by the user or by the loop)
NextIterationStep ==
    \/ pc = "idle" /\ pc' = "idle"
    \/ pc = "loop" /\ frame.i < frame.numIterations

\* C3: a nextIteration call with an explicit threshold strictly greater than
\* every entry of the current (non-empty) error field returns false and
\* leaves the basis as it is, refineElements not being called
C3_ThresholdAboveField ==
    [][(/\ NextIterationStep
        /\ Len(m_pointErrors) # 0
        /\ obs'.err_threshold >= 0
        /\ \A k \in 1..Len(m_pointErrors) : obs'.err_threshold > m_pointErrors[k])
       => (/\ ~obs'.ret
           /\ basis' = basis
           /\ "refineElements" \notin Range(obs'.ev)
           /\ m_pointErrors' = m_pointErrors)]_vars

C3_Witness ==
    /\ obs.ni
    /\ obs.hadField
    /\ obs.err_threshold > m_max_error
    /\ obs.tolerance < m_max_error
    /\ obs.cause = "noboxes"
    /\ ~obs.ret

\* what iterativeRefine reports: "no more boxes" only after an iteration with
\* zero boxes and the maximum error above the tolerance, "tolerance reached"
\* only with the maximum error at most the tolerance, never both
LoopReports ==
    frame.op = "iterativeRefine" =>
        /\ Len(frame.log) <= 1
        /\ "No more Boxes to insert at iteration" \in Range(frame.log) =>
              /\ obs.ni /\ obs.cause = "noboxes" /\ obs.boxes = <<>>
              /\ m_max_error > frame.tolerance
        /\ "Tolerance reached at iteration" \in Range(frame.log) =>
              m_max_error <= frame.tolerance

\* C8 as stated: iterativeRefine reports the two stops distinctly, and what
\* nextIteration returns on "no boxes" differs from what it returns on
\* "tolerance reached"
C8_StopsDistinctInReturn ==
    /\ LoopReports
    /\ (obs.ni /\ obs.cause = "noboxes") => obs.ret # toleranceReached(entry).ret

\* C8 amended: iterativeRefine reports the two stops distinctly; nextIteration
\* returns false for both, and its caller tells them apart by comparing the
\* maximum error with the tolerance (at most the tolerance exactly on
\* "tolerance reached")
C8_StopsDistinctInLoop ==
    /\ LoopReports
    /\ (obs.ni /\ obs.cause # "none") =>
          /\ ~obs.ret
          /\ obs.cause = "tolerance" <=> m_max_error <= obs.tolerance
          /\ obs.cause = "tolerance" <=> "Tolerance reached." \in Range(obs.log)

C8_Witness ==
    /\ frame.op = "iterativeRefine"
    /\ pc = "idle"
    /\ frame.log = <<"No more Boxes to insert at iteration">>
    /\ frame.fits > 1

\* every "refineElements" of a call is directly followed by one "compute" and
\* one "computeErrors", which end the call
RefitFollows(ev) ==
    \A k \in 1..Len(ev) :
        ev[k] = "refineElements" =>
            /\ Len(ev) = k + 2
            /\ ev[k + 1] = "compute"
            /\ ev[k + 2] = "computeErrors"

\* C10: each refineElements call is followed, before any later tolerance
\* check, threshold selection or box building, by one fit and then one
\* measurement; a non-empty error field was measured on the current basis
\* structure; iterativeRefine refines at most as often as its budget allows
C10_RefineThenMeasure ==
    /\ obs.ni => RefitFollows(obs.ev)
    /\ Len(m_pointErrors) # 0 => ~stale
    /\ frame.measures = frame.fits
    /\ frame.refines <= frame.fits
    /\ frame.op = "iterativeRefine" =>
          /\ frame.refines <= frame.numIterations
          /\ frame.refines <= frame.i + 1

C10_Witness ==
    /\ frame.op = "iterativeRefine"
    /\ pc = "idle"
    /\ frame.numIterations = MaxIter
    /\ frame.refines = frame.numIterations
    /\ basis.maxLvl > 0

====
